---- MODULE Spec2Model ----
(***************************************************************************)
(* Model of spark_history_server/shs_utils.py: the pickle cache            *)
(* (save_data, load_data), the retried GET (make_authenticated_request),   *)
(* the two collectors (get_spark_apps_dataproc,                            *)
(* get_all_spark_apps_dataproc) and the two duration analyzers.            *)
(*                                                                         *)
(* Representation choices:                                                 *)
(*  - a Python dict is a sequence of [k, v] pairs in insertion order;      *)
(*  - duration_sec = (end - start) / 1000 is a float; the model keeps it   *)
(*    as the exact rational (end - start)/1000, written as its numerator   *)
(*    in thousandths of a second;                                          *)
(*  - exceptions are the names of their classes.                           *)
(***************************************************************************)
EXTENDS Integers, Sequences, FiniteSets, TLC

VARIABLES
    file,                 \* spark_apps_data.pkl on disk
    pc,                   \* position of the running collector
    completed_apps_data,  \* the dict get_all_spark_apps_dataproc works on
    loaded,               \* what load_data returned at the start of the run
    all_apps,             \* response of the list request of the run
    idx,                  \* position of the for loop in all_apps
    fetched,              \* apps whose allexecutors request was issued in the run
    last_executors,       \* the last answer of the allexecutors endpoint in the call
    result,               \* how the last call ended
    rerun,                \* the run lists the same apps as the completed run before it
    op,                   \* the collector called last: "all" or "one"
    app_name,             \* argument of get_spark_apps_dataproc
    completed_apps,       \* the list get_spark_apps_dataproc builds
    responses,            \* make_authenticated_request alone: the server's answers
    call,                 \* make_authenticated_request alone: how the call ended
    applications,         \* the analyzers alone: their argument
    analyzed,             \* the analyzers alone: the analyzer that ran
    buckets,              \* the analyzers alone: the dict of buckets
    grouped               \* the analyzers alone: grouped_apps or grouped_executors

vars == <<file, pc, completed_apps_data, loaded, all_apps, idx, fetched,
          last_executors, result, rerun, op, app_name, completed_apps, responses, call,
          applications, analyzed, buckets, grouped>>

\* the state of the collectors
collectorVars == <<file, pc, completed_apps_data, loaded, all_apps, idx, fetched,
                   last_executors, result, rerun, op, app_name, completed_apps>>

\* the state of the functions checked alone
fetchVars == <<responses, call>>
analyzerVars == <<applications, analyzed, buckets, grouped>>
pureVars == <<fetchVars, analyzerVars>>

\* what get_all_spark_apps_dataproc leaves alone
oneVars == <<op, app_name, completed_apps, pureVars>>

(***************************************************************************)
(* Bounds of the model.                                                    *)
(***************************************************************************)
MaxApps == 3         \* longest list the list endpoint returns

(***************************************************************************)
(* Python dict, insertion ordered.                                         *)
(***************************************************************************)
Range(s) == {s[i] : i \in 1..Len(s)}

Keys(d) == {d[i].k : i \in 1..Len(d)}

Values(d) == [i \in 1..Len(d) |-> d[i].v]

DictSetFront(d, key, val) ==
    IF key \in Keys(d)
    THEN [i \in 1..Len(d) |-> IF d[i].k = key THEN [k |-> key, v |-> val] ELSE d[i]]
    ELSE <<[k |-> key, v |-> val]>> \o d

\* d[key] = val: a new key goes last, a key of the dict keeps its place
DictSet(d, key, val) ==
    IF key \in Keys(d)
    THEN [i \in 1..Len(d) |-> IF d[i].k = key THEN [k |-> key, v |-> val] ELSE d[i]]
    ELSE Append(d, [k |-> key, v |-> val])

(***************************************************************************)
(* The cache file. open(..., 'wb') truncates the file; pickle.dump and the *)
(* close of the with block then write the pickle.                          *)
(***************************************************************************)
NoFile == [state |-> "absent", data |-> <<>>]

save_data_open(f) == [state |-> "truncated", data |-> <<>>]

save_data_dump(data) == [state |-> "pickled", data |-> data]

load_data_swallow(f) ==
    IF f.state = "pickled" THEN [exc |-> "none", value |-> f.data]
    ELSE [exc |-> "none", value |-> <<>>]

load_data(f) ==
    IF f.state = "absent" THEN [exc |-> "none", value |-> <<>>]
    ELSE IF f.state = "pickled" THEN [exc |-> "none", value |-> f.data]
    ELSE [exc |-> "EOFError", value |-> <<>>]

(***************************************************************************)
(* make_authenticated_request under tenacity's retry decorator.            *)
(* An attempt's answer is "ok" (2xx with a JSON body), "conn" (requests.get*)
(* raises ConnectionError), "5xx" or "4xx" (raise_for_status raises        *)
(* HTTPError).                                                             *)
(***************************************************************************)
StopAfterAttempt == 5

HttpAnswers == {"ok", "conn", "5xx", "4xx"}

IsRequestException(exc) == exc \in {"ConnectionError", "HTTPError"}

Raised(answer) ==
    IF answer = "conn" THEN "ConnectionError"
    ELSE IF answer \in {"4xx", "5xx"} THEN "HTTPError"
    ELSE "none"

RetryIfConnection(exc) == exc = "ConnectionError"

\* line 32: retry_if_exception_type(requests.exceptions.RequestException)
RetryIf(exc) == IsRequestException(exc)

StopLate(attempt) == attempt > StopAfterAttempt

\* line 31: stop_after_attempt(5)
Stop(attempt) == attempt >= StopAfterAttempt

RECURSIVE Attempt(_, _)
Attempt(answers, n) ==
    LET exc == Raised(answers[n]) IN
    IF exc = "none" THEN [exc |-> "none", attempts |-> n]
    ELSE IF ~RetryIf(exc) THEN [exc |-> exc, attempts |-> n]
    ELSE IF Stop(n) THEN [exc |-> "RetryError", attempts |-> n]
    ELSE Attempt(answers, n + 1)

make_authenticated_request(answers) == Attempt(answers, 1)

\* what the server may answer to the attempts of one call
AnswerSeqs == [1..(StopAfterAttempt + 1) -> HttpAnswers]

\* the answers the collectors' calls get: k failures of one kind, then success
Scripts ==
    {[n \in 1..(StopAfterAttempt + 1) |-> IF n <= k THEN a ELSE "ok"] :
        k \in 0..(StopAfterAttempt + 1), a \in HttpAnswers \ {"ok"}}

(***************************************************************************)
(* The history server's answers.                                           *)
(***************************************************************************)
AppIds == {"A", "B", "C"}

AppNames == {"etl", "report"}

App(id, name, completed, endTime) ==
    [id |-> id, name |-> name, completed |-> completed,
     startTimeEpoch |-> 5000, endTimeEpoch |-> endTime]

\* the job objects the list endpoint may return: every id as a completed job
\* of positive duration, and as a job that is not completed (its times apart
\* like those of a completed one), a job of zero duration or a job of negative
\* duration
Apps ==
    { App("A", "etl", TRUE, 6000),    App("A", "etl", FALSE, 8000),
      App("B", "etl", TRUE, 7000),    App("B", "etl", TRUE, 5000),
      App("C", "report", TRUE, 9000), App("C", "report", TRUE, 4000) }

AllApps ==
    {s \in UNION {[1..n -> Apps] : n \in 0..MaxApps} :
        \A i, j \in 1..Len(s) : s[i].id = s[j].id => i = j}

\* answers of the allexecutors endpoint: the driver first, then the executors
ExecutorLists == { <<>>, <<"driver">>, <<"driver", "1", "2", "3">> }

DurationSec(app) == app.endTimeEpoch - app.startTimeEpoch   \* in 1/1000 s

InvalidDurationStrict(duration_sec) == duration_sec < 0

InvalidDuration(duration_sec) == duration_sec <= 0

NumExecutorsUnguarded(executors) == Len(executors) - 1

\* lines 84 and 147
NumExecutors(executors) == IF Len(executors) > 0 THEN Len(executors) - 1 ELSE 0

(***************************************************************************)
(* How a call ends.                                                        *)
(***************************************************************************)
NoResult == [op |-> "none", kind |-> "none", value |-> <<>>, exc |-> "none", handler |-> "none"]

Returned(who, value) ==
    [op |-> who, kind |-> "returned", value |-> value, exc |-> "none", handler |-> "none"]

RaisedOut(who, exc) ==
    [op |-> who, kind |-> "raised", value |-> <<>>, exc |-> exc, handler |-> "none"]

AllExceptReraise(exc, data) ==
    IF IsRequestException(exc) THEN RaisedOut("all", exc)
    ELSE [op |-> "all", kind |-> "returned", value |-> Values(data), exc |-> exc,
          handler |-> "Exception"]

\* the except clauses of get_all_spark_apps_dataproc, in their order
AllExcept(exc, data) ==
    IF IsRequestException(exc)
    THEN [op |-> "all", kind |-> "returned", value |-> Values(data), exc |-> exc,
          handler |-> "RequestException"]
    ELSE IF exc = "DefaultCredentialsError"
    THEN [op |-> "all", kind |-> "returned", value |-> Values(data), exc |-> exc,
          handler |-> "DefaultCredentialsError"]
    ELSE [op |-> "all", kind |-> "returned", value |-> Values(data), exc |-> exc,
          handler |-> "Exception"]

OneExceptPartial(exc) ==
    [op |-> "one", kind |-> "returned", value |-> completed_apps, exc |-> exc,
     handler |-> "Exception"]

\* the except clauses of get_spark_apps_dataproc, in their order
OneExcept(exc) ==
    IF IsRequestException(exc)
    THEN [op |-> "one", kind |-> "returned", value |-> <<>>, exc |-> exc,
          handler |-> "RequestException"]
    ELSE IF exc = "DefaultCredentialsError"
    THEN [op |-> "one", kind |-> "returned", value |-> <<>>, exc |-> exc,
          handler |-> "DefaultCredentialsError"]
    ELSE [op |-> "one", kind |-> "returned", value |-> <<>>, exc |-> exc,
          handler |-> "Exception"]

AuthOutcomes == {"none", "DefaultCredentialsError", "RefreshError"}

ListFailures == {"ConnectionError", "HTTPError"}

Running == {"auth", "list", "loop", "dump", "ckpt_dump", "one_list", "one_loop"}

NoCall == [exc |-> "none", attempts |-> 0]

CollectorInit ==
    /\ file = NoFile
    /\ pc = "idle"
    /\ completed_apps_data = <<>>
    /\ loaded = <<>>
    /\ all_apps = <<>>
    /\ idx = 0
    /\ fetched = <<>>
    /\ last_executors = <<>>
    /\ result = NoResult
    /\ rerun = "no"
    /\ op = "none"
    /\ app_name = "none"
    /\ completed_apps = <<>>

Init ==
    /\ CollectorInit
    /\ responses = <<>>
    /\ call = NoCall
    /\ applications = <<>>
    /\ analyzed = "none"
    /\ buckets = <<>>
    /\ grouped = <<>>

(***************************************************************************)
(* get_all_spark_apps_dataproc                                             *)
(***************************************************************************)
\* line 112: load_data, outside the try block
get_all_load ==
    /\ pc \in {"idle", "terminated"}
    /\ LET r == load_data(file) IN
       /\ completed_apps_data' = r.value
       /\ loaded' = r.value
       /\ IF r.exc = "none"
          THEN /\ pc' = "auth"
               /\ result' = NoResult
               /\ rerun' = IF pc = "idle" THEN rerun ELSE "no"
          ELSE /\ pc' = "idle"
               /\ result' = RaisedOut("all", r.exc)
               /\ rerun' = "no"
    /\ idx' = 0
    /\ fetched' = <<>>
    /\ last_executors' = <<>>
    /\ op' = "all"
    /\ app_name' = "none"
    /\ completed_apps' = <<>>
    /\ UNCHANGED <<file, all_apps, pureVars>>

\* lines 115-117: google.auth.default and credentials.refresh
get_all_auth ==
    /\ pc = "auth"
    /\ \E exc \in AuthOutcomes :
          IF exc = "none"
          THEN /\ pc' = "list"
               /\ UNCHANGED <<result, rerun>>
          ELSE /\ pc' = "idle"
               /\ result' = AllExcept(exc, completed_apps_data)
               /\ rerun' = "no"
    /\ UNCHANGED <<file, completed_apps_data, loaded, all_apps, idx, fetched,
                   last_executors>>
    /\ UNCHANGED oneVars

\* lines 125-127: the list request, not retried
get_all_list ==
    /\ pc = "list"
    /\ \/ \E apps \in AllApps :
             /\ all_apps' = apps
             /\ idx' = 1
             /\ pc' = "loop"
             /\ rerun' = IF rerun = "completed" /\ apps = all_apps THEN "same" ELSE "no"
             /\ UNCHANGED result
       \/ \E exc \in ListFailures :
             /\ pc' = "idle"
             /\ result' = AllExcept(exc, completed_apps_data)
             /\ rerun' = "no"
             /\ UNCHANGED <<all_apps, idx>>
    /\ UNCHANGED <<file, completed_apps_data, loaded, fetched, last_executors>>
    /\ UNCHANGED oneVars

Summary(app, executors) ==
    [app_name |-> app.name, executors |-> NumExecutors(executors),
     duration_sec |-> DurationSec(app)]

SkippedByDuration(app, data) ==
    \/ app.id \in Keys(data)
    \/ InvalidDuration(DurationSec(app))

SkippedUncached(app, data) ==
    \/ ~app.completed
    \/ InvalidDuration(DurationSec(app))

\* lines 131-143: the app is passed over without a request
Skipped(app, data) ==
    \/ app.id \in Keys(data)
    \/ ~app.completed
    \/ InvalidDuration(DurationSec(app))

\* lines 129-158: one iteration of the for loop
get_all_app ==
    /\ pc = "loop"
    /\ idx <= Len(all_apps)
    /\ LET app == all_apps[idx] IN
       IF Skipped(app, completed_apps_data)
       THEN /\ idx' = idx + 1
            /\ UNCHANGED <<file, pc, completed_apps_data, fetched, last_executors, result>>
       ELSE \E answers \in Scripts, executors \in ExecutorLists :
               LET r == make_authenticated_request(answers) IN
               /\ fetched' = Append(fetched, app)
               /\ last_executors' = IF r.exc = "none" THEN executors ELSE last_executors
               /\ IF r.exc = "none"
                  THEN /\ completed_apps_data' =
                             DictSet(completed_apps_data, app.id, Summary(app, executors))
                       /\ idx' = idx + 1
                       /\ UNCHANGED <<file, pc, result>>
                  ELSE IF IsRequestException(r.exc)
                  THEN \* lines 154-158: save_data opens the file; the raise follows the dump
                       /\ file' = save_data_open(file)
                       /\ pc' = "ckpt_dump"
                       /\ result' = [NoResult EXCEPT !.exc = r.exc]
                       /\ UNCHANGED <<completed_apps_data, idx>>
                  ELSE /\ pc' = "idle"
                       /\ result' = AllExcept(r.exc, completed_apps_data)
                       /\ UNCHANGED <<file, completed_apps_data, idx>>
    /\ rerun' = IF pc' = "idle" THEN "no" ELSE rerun
    /\ UNCHANGED <<loaded, all_apps>>
    /\ UNCHANGED oneVars

\* line 161 into line 15: the loop is over, save_data opens the file
get_all_save ==
    /\ pc = "loop"
    /\ idx > Len(all_apps)
    /\ file' = save_data_open(file)
    /\ pc' = "dump"
    /\ UNCHANGED <<completed_apps_data, loaded, all_apps, idx, fetched, last_executors,
                   result, rerun>>
    /\ UNCHANGED oneVars

\* line 16, then line 162 (return) or line 158 (raise, caught at line 164)
get_all_dump ==
    /\ pc \in {"dump", "ckpt_dump"}
    /\ file' = save_data_dump(completed_apps_data)
    /\ pc' = "idle"
    /\ IF pc = "dump"
       THEN /\ result' = Returned("all", Values(completed_apps_data))
            /\ rerun' = "completed"
       ELSE /\ result' = AllExcept(result.exc, completed_apps_data)
            /\ rerun' = "no"
    /\ UNCHANGED <<completed_apps_data, loaded, all_apps, idx, fetched, last_executors>>
    /\ UNCHANGED oneVars

\* the process is killed while a collector runs
Terminate ==
    /\ pc \in Running
    /\ pc' = "terminated"
    /\ rerun' = "no"
    /\ UNCHANGED <<file, completed_apps_data, loaded, all_apps, idx, fetched,
                   last_executors, result>>
    /\ UNCHANGED oneVars

(***************************************************************************)
(* get_spark_apps_dataproc                                                 *)
(***************************************************************************)
\* lines 47-51: the call begins, google.auth.default and credentials.refresh
get_one_auth ==
    /\ pc \in {"idle", "terminated"}
    /\ op' = "one"
    /\ \E name \in AppNames : app_name' = name
    /\ completed_apps' = <<>>
    /\ \E exc \in AuthOutcomes :
          IF exc = "none"
          THEN /\ pc' = "one_list"
               /\ result' = NoResult
          ELSE /\ pc' = "idle"
               /\ result' = OneExcept(exc)
    /\ completed_apps_data' = <<>>
    /\ loaded' = <<>>
    /\ all_apps' = <<>>
    /\ idx' = 0
    /\ fetched' = <<>>
    /\ last_executors' = <<>>
    /\ rerun' = "no"
    /\ UNCHANGED <<file, pureVars>>

\* lines 60-64: the list request, not retried
get_one_list ==
    /\ pc = "one_list"
    /\ \/ \E apps \in AllApps :
             /\ all_apps' = apps
             /\ idx' = 1
             /\ pc' = "one_loop"
             /\ UNCHANGED result
       \/ \E exc \in ListFailures :
             /\ pc' = "idle"
             /\ result' = OneExcept(exc)
             /\ UNCHANGED <<all_apps, idx>>
    /\ UNCHANGED <<file, completed_apps_data, loaded, fetched, last_executors, rerun,
                   op, app_name, completed_apps, pureVars>>

\* lines 67-78 and 90-91: the app is passed over without a request
OneSkipped(app, name) ==
    \/ ~(app.name = name /\ app.completed)
    \/ InvalidDuration(DurationSec(app))

OneSummary(app, executors) ==
    [executors |-> NumExecutors(executors), duration_sec |-> DurationSec(app)]

\* lines 65-91: one iteration of the for loop
get_one_app ==
    /\ pc = "one_loop"
    /\ idx <= Len(all_apps)
    /\ LET app == all_apps[idx] IN
       IF OneSkipped(app, app_name)
       THEN /\ idx' = idx + 1
            /\ UNCHANGED <<pc, completed_apps, fetched, last_executors, result>>
       ELSE \E answers \in Scripts, executors \in ExecutorLists :
               LET r == make_authenticated_request(answers) IN
               /\ fetched' = Append(fetched, app)
               /\ last_executors' = IF r.exc = "none" THEN executors ELSE last_executors
               /\ IF r.exc = "none"
                  THEN /\ completed_apps' = Append(completed_apps, OneSummary(app, executors))
                       /\ idx' = idx + 1
                       /\ UNCHANGED <<pc, result>>
                  ELSE /\ pc' = "idle"
                       /\ result' = OneExcept(r.exc)
                       /\ UNCHANGED <<completed_apps, idx>>
    /\ UNCHANGED <<file, completed_apps_data, loaded, all_apps, rerun, op, app_name,
                   pureVars>>

\* line 92
get_one_return ==
    /\ pc = "one_loop"
    /\ idx > Len(all_apps)
    /\ pc' = "idle"
    /\ result' = Returned("one", completed_apps)
    /\ UNCHANGED <<file, completed_apps_data, loaded, all_apps, idx, fetched,
                   last_executors, rerun, op, app_name, completed_apps, pureVars>>

Next ==
    \/ get_all_load
    \/ get_all_auth
    \/ get_all_list
    \/ get_all_app
    \/ get_all_save
    \/ get_all_dump
    \/ get_one_auth
    \/ get_one_list
    \/ get_one_app
    \/ get_one_return
    \/ Terminate

Spec == Init /\ [][Next]_vars

(***************************************************************************)
(* make_authenticated_request alone: the server's answers to the attempts  *)
(* of one call are any sequence; the call is applied to them.              *)
(***************************************************************************)
InitFetch ==
    /\ CollectorInit
    /\ responses \in AnswerSeqs
    /\ call = NoCall
    /\ applications = <<>>
    /\ analyzed = "none"
    /\ buckets = <<>>
    /\ grouped = <<>>

Fetch ==
    /\ call.attempts = 0
    /\ call' = make_authenticated_request(responses)
    /\ UNCHANGED <<collectorVars, responses, analyzerVars>>

NextFetch == Fetch

SpecFetch == InitFetch /\ [][NextFetch]_vars

(***************************************************************************)
(* The analyzers. A duration is in 1/1000 s, as in the summaries; a        *)
(* percentile of durations, and so a bucket bound, is in 1/100000 s, which *)
(* keeps numpy's linear interpolation at q/100 of the way exact.           *)
(***************************************************************************)
Insert(s, x) ==
    LET k == Cardinality({i \in 1..Len(s) : s[i] <= x}) IN
    SubSeq(s, 1, k) \o <<x>> \o SubSeq(s, k + 1, Len(s))

RECURSIVE Sorted(_)
Sorted(s) == IF s = <<>> THEN <<>> ELSE Insert(Sorted(Tail(s)), Head(s))

PercentileLower(a, q) ==
    LET sorted == Sorted(a)
        lo == ((Len(a) - 1) * q) \div 100
    IN  100 * sorted[lo + 1]

\* np.percentile(a, q), method 'linear': the value at index (n - 1) * q / 100
\* of the sorted input, interpolated between the two nearest ranks
Percentile(a, q) ==
    LET sorted == Sorted(a)
        pos == (Len(a) - 1) * q
        lo == pos \div 100
        rem == pos % 100
    IN  IF rem = 0 THEN 100 * sorted[lo + 1]
        ELSE 100 * sorted[lo + 1] + rem * (sorted[lo + 2] - sorted[lo + 1])

\* np.max(durations), as a bucket bound
Max(a) == CHOOSE x \in Range(a) : \A y \in Range(a) : y <= x

\* a duration as a bucket bound
Bound(duration_sec) == 100 * duration_sec

\* f"{x:.0f}" of a bucket bound: the nearest whole second, a tie to the even one
Fmt0f(x) ==
    LET q == x \div 100000
        r == x % 100000
    IN  IF 2 * r < 100000 THEN q
        ELSE IF 2 * r > 100000 THEN q + 1
        ELSE IF q % 2 = 0 THEN q ELSE q + 1

Durations(apps) == [i \in 1..Len(apps) |-> apps[i].duration_sec]

InBucketFromLower(bucket, duration_sec) ==
    bucket.lower <= Bound(duration_sec) /\ Bound(duration_sec) < bucket.upper

\* lines 206 and 266: lower_bound < app['duration_sec'] <= upper_bound
InBucket(bucket, duration_sec) ==
    bucket.lower < Bound(duration_sec) /\ Bound(duration_sec) <= bucket.upper

\* the first bucket of the dict, in its order, that takes the duration; 0 if none
FirstBucket(bk, duration_sec) ==
    LET m == {i \in 1..Len(bk) : InBucket(bk[i].v, duration_sec)} IN
    IF m = {} THEN 0 ELSE CHOOSE i \in m : \A j \in m : i <= j

DetailedPercentilesTo90 == [i \in 1..9 |-> 10 * i]

\* line 191: np.arange(10, 101, 10)
DetailedPercentiles == [i \in 1..10 |-> 10 * i]

\* lines 195-200: the dict of buckets, keyed by their labels
RECURSIVE DetailedBucketsFrom(_, _, _, _)
DetailedBucketsFrom(durations, i, lower_bound, acc) ==
    IF i > Len(DetailedPercentiles) THEN acc
    ELSE LET p == DetailedPercentiles[i]
             upper_bound == Percentile(durations, p)
             label == <<p - 10, p, Fmt0f(lower_bound), Fmt0f(upper_bound)>>
         IN  DetailedBucketsFrom(durations, i + 1, upper_bound,
                 DictSet(acc, label, [lower |-> lower_bound, upper |-> upper_bound]))

DetailedBuckets(durations) == DetailedBucketsFrom(durations, 1, 0, <<>>)

QuartileBucketsOverlap(durations) ==
    LET p25 == Percentile(durations, 25)
        p50 == Percentile(durations, 50)
        p75 == Percentile(durations, 75)
        max_duration == Bound(Max(durations))
    IN  DictSet(DictSet(DictSet(DictSet(<<>>,
            <<"Short", 0, Fmt0f(p25)>>, [lower |-> 0, upper |-> p25]),
            <<"Medium", Fmt0f(p25), Fmt0f(p50)>>, [lower |-> p25, upper |-> p50]),
            <<"Long", Fmt0f(p50), Fmt0f(p75)>>, [lower |-> p50, upper |-> p75]),
            <<"Very Long", Fmt0f(p75), Fmt0f(p75)>>,
                [lower |-> p50, upper |-> max_duration + Bound(1000)])

\* lines 250-260: the dict of the four quartile buckets, keyed by their labels
QuartileBuckets(durations) ==
    LET p25 == Percentile(durations, 25)
        p50 == Percentile(durations, 50)
        p75 == Percentile(durations, 75)
        max_duration == Bound(Max(durations))
    IN  DictSet(DictSet(DictSet(DictSet(<<>>,
            <<"Short", 0, Fmt0f(p25)>>, [lower |-> 0, upper |-> p25]),
            <<"Medium", Fmt0f(p25), Fmt0f(p50)>>, [lower |-> p25, upper |-> p50]),
            <<"Long", Fmt0f(p50), Fmt0f(p75)>>, [lower |-> p50, upper |-> p75]),
            <<"Very Long", Fmt0f(p75), Fmt0f(p75)>>,
                [lower |-> p75, upper |-> max_duration + Bound(1000)])

EmptyGroups(bk) == [i \in 1..Len(bk) |-> [k |-> bk[i].k, v |-> <<>>]]

\* lines 203-208: each app goes to the first bucket that takes it, if any
RECURSIVE GroupApps(_, _, _, _)
GroupApps(apps, j, bk, acc) ==
    IF j > Len(apps) THEN acc
    ELSE LET m == FirstBucket(bk, apps[j].duration_sec) IN
         GroupApps(apps, j + 1, bk,
             IF m = 0 THEN acc ELSE [acc EXCEPT ![m].v = Append(@, apps[j])])

\* lines 263-268: the same, keeping the executor count of the app
RECURSIVE GroupExecutors(_, _, _, _)
GroupExecutors(apps, j, bk, acc) ==
    IF j > Len(apps) THEN acc
    ELSE LET m == FirstBucket(bk, apps[j].duration_sec) IN
         GroupExecutors(apps, j + 1, bk,
             IF m = 0 THEN acc ELSE [acc EXCEPT ![m].v = Append(@, apps[j].executors)])

\* the summaries the analyzers are given
MaxJobs == 4

AnalyzedDurations == {0, 10000, 20000, 30000, 40000}

AnalyzedApps ==
    {app \in [executors : {0, 3}, duration_sec : AnalyzedDurations] :
        app.executors = 3 \/ app.duration_sec = 20000}

InitAnalyze ==
    /\ CollectorInit
    /\ responses = <<>>
    /\ call = NoCall
    /\ applications \in UNION {[1..n -> AnalyzedApps] : n \in 0..MaxJobs}
    /\ analyzed = "none"
    /\ buckets = <<>>
    /\ grouped = <<>>

\* lines 175-208
analyze_by_duration_detailed ==
    /\ analyzed = "none"
    /\ analyzed' = "detailed"
    /\ IF applications = <<>>
       THEN UNCHANGED <<buckets, grouped>>
       ELSE LET bk == DetailedBuckets(Durations(applications)) IN
            /\ buckets' = bk
            /\ grouped' = GroupApps(applications, 1, bk, EmptyGroups(bk))
    /\ UNCHANGED <<collectorVars, fetchVars, applications>>

\* lines 234-268
analyze_by_duration ==
    /\ analyzed = "none"
    /\ analyzed' = "quartile"
    /\ IF applications = <<>>
       THEN UNCHANGED <<buckets, grouped>>
       ELSE LET bk == QuartileBuckets(Durations(applications)) IN
            /\ buckets' = bk
            /\ grouped' = GroupExecutors(applications, 1, bk, EmptyGroups(bk))
    /\ UNCHANGED <<collectorVars, fetchVars, applications>>

NextAnalyze ==
    \/ analyze_by_duration_detailed
    \/ analyze_by_duration

SpecAnalyze == InitAnalyze /\ [][NextAnalyze]_vars

(***************************************************************************)
(* Properties of the collectors, checked under Spec.                       *)
(***************************************************************************)
AllEnded == op = "all" /\ pc = "idle" /\ result.kind # "none"

Positive(app) == app.completed /\ app.endTimeEpoch - app.startTimeEpoch > 0

\* C1: a run of get_all_spark_apps_dataproc issues no allexecutors request
\* for an id that was in the cache it loaded, and a run that lists the same
\* apps as the completed, saved run before it issues no such request at all.
C1_Resumable ==
    op = "all" =>
        /\ \A i \in 1..Len(fetched) : fetched[i].id \notin Keys(loaded)
        /\ rerun = "same" => fetched = <<>>

\* a rerun over three cached apps has reached the end of its loop
C1_Witness ==
    /\ op = "all"
    /\ rerun = "same"
    /\ pc = "dump"
    /\ Len(all_apps) = 3
    /\ Keys(loaded) = AppIds
    /\ \A i \in 1..3 : Positive(all_apps[i])

FailedAtB ==
    /\ AllEnded
    /\ loaded = <<>>
    /\ Len(all_apps) = 3
    /\ <<all_apps[1].id, all_apps[2].id, all_apps[3].id>> = <<"A", "B", "C">>
    /\ \A i \in 1..3 : Positive(all_apps[i])
    /\ fetched = <<all_apps[1], all_apps[2]>>
    /\ result.exc = "RetryError"

\* C2: when the list is [A, B, C], the cache was empty, the request for A
\* succeeded and the request for B failed on every attempt, the cache file
\* holds A and neither B nor C once the run has ended.
C2_CheckpointOnFailure ==
    FailedAtB => file.state = "pickled" /\ Keys(file.data) = {"A"}

\* C3: a run whose allexecutors request failed ends by raising to the caller.
C3_FailurePropagates ==
    (AllEnded /\ result.exc = "RetryError") => result.kind = "raised"

OuterError ==
    /\ AllEnded
    /\ fetched = <<>>
    /\ result.exc \in (AuthOutcomes \ {"none"}) \cup ListFailures

\* C4: when the credentials or the list request fail, the call returns the
\* summaries of the cache as loaded, and the cache file holds exactly them.
C4_OuterErrorsReturn ==
    OuterError =>
        /\ result.kind = "returned"
        /\ result.value = Values(loaded)
        /\ load_data(file).exc = "none"
        /\ load_data(file).value = loaded

\* the list request failed in a run that had loaded two summaries
C4_Witness ==
    /\ OuterError
    /\ result.exc = "HTTPError"
    /\ Len(loaded) = 2

\* C5: when the process is killed during get_all_spark_apps_dataproc, the
\* cache file holds the complete content it had before the run or the
\* complete new content, and every entry it held before the run.
C5_CrashSafe ==
    (op = "all" /\ pc = "terminated") =>
        /\ load_data(file).exc = "none"
        /\ load_data(file).value \in {loaded, completed_apps_data}
        /\ \A i \in 1..Len(loaded) : loaded[i] \in Range(load_data(file).value)

\* C8: every summary in the working dict, in the cache file, in the list
\* get_spark_apps_dataproc builds and in a returned list has a positive
\* duration, and only completed apps of positive duration are requested.
C8_PositiveDuration ==
    /\ \A i \in 1..Len(completed_apps_data) : completed_apps_data[i].v.duration_sec > 0
    /\ \A i \in 1..Len(file.data) : file.data[i].v.duration_sec > 0
    /\ \A i \in 1..Len(completed_apps) : completed_apps[i].duration_sec > 0
    /\ \A i \in 1..Len(result.value) : result.value[i].duration_sec > 0
    /\ \A i \in 1..Len(fetched) : Positive(fetched[i])

\* get_spark_apps_dataproc returned one summary from a list that also held a
\* job of its name with no positive duration, after the cache file was filled
C8_Witness ==
    /\ op = "one"
    /\ pc = "idle"
    /\ result.kind = "returned"
    /\ Len(result.value) = 1
    /\ Len(file.data) = 3
    /\ \E i \in 1..Len(all_apps) :
          /\ all_apps[i].name = app_name
          /\ all_apps[i].completed
          /\ all_apps[i].endTimeEpoch - all_apps[i].startTimeEpoch <= 0

\* the last allexecutors request of the call was answered, and the summary
\* built from the answer is the last one of the dict or of the list
LastStored ==
    IF op = "all" /\ fetched # <<>> /\ completed_apps_data # <<>>
          /\ completed_apps_data[Len(completed_apps_data)].k = fetched[Len(fetched)].id
    THEN {completed_apps_data[Len(completed_apps_data)].v.executors}
    ELSE IF op = "one" /\ fetched # <<>> /\ Len(completed_apps) = Len(fetched)
    THEN {completed_apps[Len(completed_apps)].executors}
    ELSE {}

\* C11: in both collectors the stored executor count is the length of the
\* answered list less 1, and 0 for the empty list (0 -> 0, 1 -> 0, 4 -> 3);
\* no stored count is negative.
C11_ExecutorCount ==
    /\ \A n \in LastStored :
          /\ Len(last_executors) > 0 => n = Len(last_executors) - 1
          /\ Len(last_executors) = 0 => n = 0
          /\ n = CASE Len(last_executors) = 0 -> 0
                   [] Len(last_executors) = 1 -> 0
                   [] Len(last_executors) = 4 -> 3
    /\ \A i \in 1..Len(completed_apps_data) : completed_apps_data[i].v.executors >= 0
    /\ \A i \in 1..Len(file.data) : file.data[i].v.executors >= 0
    /\ \A i \in 1..Len(completed_apps) : completed_apps[i].executors >= 0
    /\ \A i \in 1..Len(result.value) : result.value[i].executors >= 0

\* get_all_spark_apps_dataproc stored 0 for an empty answer after it had stored
\* 3 for an answer of length 4
C11_Witness ==
    /\ op = "all"
    /\ LastStored = {0}
    /\ last_executors = <<>>
    /\ Len(completed_apps_data) = 2
    /\ completed_apps_data[1].v.executors = 3

IsPrefix(s, t) == Len(s) <= Len(t) /\ \A i \in 1..Len(s) : t[i] = s[i]

\* C12: get_all_spark_apps_dataproc never changes or removes an entry of its
\* dict: every step of a run keeps the entries the dict has, so the dict
\* keeps what was loaded, and the cache file, whenever it holds a pickle and
\* always when the call returns, holds every (id, summary) pair that was
\* loaded from it, unchanged.
C12_EntriesImmutable ==
    [][ op' = "all" =>
          /\ (op = "all" /\ pc \in Running) =>
                IsPrefix(completed_apps_data, completed_apps_data')
          /\ IsPrefix(loaded', completed_apps_data')
          /\ file'.state # "truncated" => IsPrefix(loaded', load_data(file').value)
          /\ (pc' = "idle" /\ result'.kind = "returned") => file'.state # "truncated" ]_vars

\* a run that had loaded A and B was listed both again, completed and of
\* positive duration, with C, and saved the three
C12_Witness ==
    /\ AllEnded
    /\ result.exc = "none"
    /\ Keys(loaded) = {"A", "B"}
    /\ Len(all_apps) = 3
    /\ \A i \in 1..3 : Positive(all_apps[i])
    /\ Len(file.data) = 3

\* C13: get_spark_apps_dataproc does not raise: when the credentials, the
\* list request or an allexecutors request fail it returns the empty list,
\* whatever it had built; no step of it changes the cache file, and an
\* unreadable cache file does not make it fail.
C13_FailsSoft ==
    [][ op' = "one" =>
          /\ file' = file
          /\ result'.kind # "raised"
          /\ result'.exc # "EOFError"
          /\ (pc' = "idle" /\ result'.exc # "none") =>
                (result'.kind = "returned" /\ result'.value = <<>>) ]_vars

\* the second allexecutors request failed after a summary was built, beside
\* a cache file that cannot be read
C13_Witness ==
    /\ op = "one"
    /\ pc = "idle"
    /\ result.exc = "RetryError"
    /\ result.value = <<>>
    /\ Len(completed_apps) = 1
    /\ file.state = "truncated"

\* the listed apps among the first n that the run has to request, in the
\* order of the list
ToRequest(n) ==
    LET S == {i \in 1..n : Positive(all_apps[i]) /\ all_apps[i].id \notin Keys(loaded)}
    IN  [k \in 1..Cardinality(S) |->
            all_apps[CHOOSE i \in S : Cardinality({j \in S : j <= i}) = k]]

\* the entries the run has added to its dict, in the order of the dict
Added == SubSeq(completed_apps_data, Len(loaded) + 1, Len(completed_apps_data))

\* the apps of the list the loop has gone past
Passed == IF idx = 0 THEN 0 ELSE idx - 1

\* C14: get_all_spark_apps_dataproc goes through the list in its order, one
\* app at a time: at every point the entries added in the run are those of
\* the completed, positive-duration, not yet cached apps of the part of the
\* list gone past, in the order of the list, and the requests were issued
\* in that order, at most one of them not answered.
C14_ListOrder ==
    op = "all" =>
        /\ Passed <= Len(all_apps)
        /\ Len(Added) = Len(ToRequest(Passed))
        /\ \A k \in 1..Len(Added) :
              /\ Added[k].k = ToRequest(Passed)[k].id
              /\ Added[k].v.app_name = ToRequest(Passed)[k].name
              /\ Added[k].v.duration_sec =
                    ToRequest(Passed)[k].endTimeEpoch - ToRequest(Passed)[k].startTimeEpoch
        /\ \/ fetched = ToRequest(Passed)
           \/ /\ result.exc = "RetryError"
              /\ idx <= Len(all_apps)
              /\ fetched = ToRequest(idx)
              /\ Len(fetched) = Len(Added) + 1

\* the loop is over a list of three apps, the second of them cached before
\* the run, the first and the third added by it
C14_Witness ==
    /\ op = "all"
    /\ pc = "dump"
    /\ Len(all_apps) = 3
    /\ Len(loaded) = 1
    /\ all_apps[2].id \in Keys(loaded)
    /\ Len(Added) = 2

\* C15: the load that opens get_all_spark_apps_dataproc gives the empty dict
\* when there is no file and the stored dict when the file holds one; when
\* the file cannot be unpickled the exception leaves the function, no request
\* is made and the file stays as it was.
C15_CacheLoad ==
    /\ [][ (pc \in {"idle", "terminated"} /\ op' = "all") =>
              /\ file' = file
              /\ fetched' = <<>>
              /\ file.state = "absent" =>
                    /\ loaded' = <<>>
                    /\ completed_apps_data' = <<>>
                    /\ pc' = "auth"
              /\ file.state = "pickled" =>
                    /\ loaded' = file.data
                    /\ completed_apps_data' = file.data
                    /\ pc' = "auth"
              /\ file.state = "truncated" =>
                    /\ pc' = "idle"
                    /\ result'.kind = "raised"
                    /\ result'.exc = "EOFError" ]_vars
    /\ [](op = "all" /\ result.kind = "raised" =>
              /\ pc = "idle"
              /\ file.state = "truncated"
              /\ fetched = <<>>
              /\ idx = 0)

\* a call beside a file that an interrupted save_data left empty
C15_Witness ==
    /\ op = "all"
    /\ pc = "idle"
    /\ result.kind = "raised"
    /\ result.exc = "EOFError"
    /\ file.state = "truncated"
    /\ fetched = <<>>

\* get_all_spark_apps_dataproc has returned from line 162: nothing failed
FailureFree == AllEnded /\ result.kind = "returned" /\ result.exc = "none"

\* C18: when nothing fails in get_all_spark_apps_dataproc, the keys of the
\* saved dict are the loaded keys and the ids of the listed apps that are
\* completed with a positive duration, the list returned is the values of
\* the saved dict, and no app that is not completed or has no positive
\* duration has been added.
C18_FailureFreeResult ==
    FailureFree =>
        /\ file.state = "pickled"
        /\ Keys(file.data) =
              Keys(loaded) \cup {all_apps[i].id : i \in {j \in 1..Len(all_apps) : Positive(all_apps[j])}}
        /\ IsPrefix(loaded, file.data)
        /\ result.value = Values(file.data)
        /\ Len(result.value) = Cardinality(Keys(file.data))
        /\ \A i \in 1..Len(all_apps) :
              (~Positive(all_apps[i]) /\ all_apps[i].id \notin Keys(loaded)) =>
                  all_apps[i].id \notin Keys(file.data)

\* a run that had B in its cache listed an app that was not completed, one
\* with no positive duration and the completed C, and saved B and C
C18_Witness ==
    /\ FailureFree
    /\ Keys(loaded) = {"B"}
    /\ Len(all_apps) = 3
    /\ \E i \in 1..3 : ~all_apps[i].completed
    /\ \E i \in 1..3 :
          all_apps[i].completed /\ all_apps[i].endTimeEpoch - all_apps[i].startTimeEpoch <= 0
    /\ Keys(file.data) = {"B", "C"}
    /\ Len(result.value) = 2

(***************************************************************************)
(* Properties of make_authenticated_request, checked under SpecFetch.      *)
(***************************************************************************)
Called == call.attempts > 0

\* the attempts, among those allowed, that the server answers with success
OkAttempts == {i \in 1..StopAfterAttempt : responses[i] = "ok"}

\* C6: a call makes at most 5 attempts; it returns at the first attempt
\* answered with success, having retried every failure before it, and it
\* fails when the first 5 attempts all fail.
C6_BoundedRetry ==
    Called =>
        /\ call.attempts <= 5
        /\ IF OkAttempts = {}
           THEN call.exc # "none" /\ call.attempts = 5
           ELSE /\ call.exc = "none"
                /\ call.attempts \in OkAttempts
                /\ \A i \in OkAttempts : call.attempts <= i

\* the fifth attempt succeeded after connection and 5xx errors
C6_Witness ==
    /\ Called
    /\ call.exc = "none"
    /\ call.attempts = 5
    /\ responses[1] = "conn"
    /\ responses[2] = "5xx"

\* C7 as stated: a call whose first answer is a 4xx makes that one attempt
\* and fails.
C7_NoRetryOn4xx ==
    (Called /\ responses[1] = "4xx") => (call.attempts = 1 /\ call.exc # "none")

\* C7 amended: a 4xx answer is retried like any other RequestException: the
\* attempt after it is made unless it was the 5th, and a call answered 4xx
\* five times fails with RetryError after the 5th attempt.
C7_4xxRetried ==
    Called =>
        /\ \A i \in 1..call.attempts :
              responses[i] = "4xx" => (i < call.attempts \/ i = StopAfterAttempt)
        /\ (\A i \in 1..StopAfterAttempt : responses[i] = "4xx") =>
              (call.attempts = StopAfterAttempt /\ call.exc = "RetryError")

\* every attempt was answered 4xx
C7_Witness ==
    /\ Called
    /\ \A i \in 1..StopAfterAttempt : responses[i] = "4xx"
    /\ call.attempts = 5

(***************************************************************************)
(* Properties of the analyzers, checked under SpecAnalyze.                 *)
(***************************************************************************)
PositiveInput ==
    /\ applications # <<>>
    /\ \A i \in 1..Len(applications) : applications[i].duration_sec > 0

\* each lower bound is the upper bound before it, and the first one is 0
Contiguous ==
    /\ buckets[1].v.lower = 0
    /\ \A i \in 2..Len(buckets) : buckets[i].v.lower = buckets[i - 1].v.upper

\* the jobs whose duration lies in (lower, upper] of bucket i
JobsIn(i) ==
    {j \in 1..Len(applications) :
        /\ buckets[i].v.lower < 100 * applications[j].duration_sec
        /\ 100 * applications[j].duration_sec <= buckets[i].v.upper}

GroupedTotal ==
    Cardinality({<<i, j>> \in (1..Len(grouped)) \X (1..MaxJobs + 1) : j <= Len(grouped[i].v)})

LongestDuration ==
    CHOOSE d \in Range(Durations(applications)) :
        \A j \in 1..Len(applications) : applications[j].duration_sec <= d

\* C9: for jobs of positive duration analyze_by_duration_detailed builds 10
\* contiguous buckets from 0 to the longest duration, and every job is put
\* in exactly one bucket: the one whose (lower, upper] holds its duration.
C9_DecileBuckets ==
    (analyzed = "detailed" /\ PositiveInput) =>
        /\ Len(buckets) = 10
        /\ Contiguous
        /\ buckets[10].v.upper = 100 * LongestDuration
        /\ \A j \in 1..Len(applications) : Cardinality({i \in 1..10 : j \in JobsIn(i)}) = 1
        /\ \A i \in 1..10 :
              /\ Len(grouped[i].v) = Cardinality(JobsIn(i))
              /\ \A j \in JobsIn(i) : applications[j] \in Range(grouped[i].v)
        /\ GroupedTotal = Len(applications)

\* four jobs of four durations were put in four buckets
C9_Witness ==
    /\ analyzed = "detailed"
    /\ PositiveInput
    /\ Cardinality(Range(Durations(applications))) = 4
    /\ Cardinality({i \in 1..Len(grouped) : grouped[i].v # <<>>}) = 4

\* values of (0, longest duration] at which the cover of the buckets is probed
Probes ==
    {x \in {1} \cup {100 * d : d \in AnalyzedDurations}
            \cup {buckets[i].v.upper : i \in 1..Len(buckets)}
            \cup {buckets[i].v.upper + 1 : i \in 1..Len(buckets)} :
        0 < x /\ x <= 100 * LongestDuration}

\* C10: for jobs of positive duration analyze_by_duration builds the buckets
\* (0, p25], (p25, p50], (p50, p75], (p75, max + 1]: contiguous, not
\* overlapping, covering (0, max], and every job is put in exactly one.
C10_QuartileBuckets ==
    (analyzed = "quartile" /\ PositiveInput) =>
        /\ Len(buckets) = 4
        /\ Contiguous
        /\ \A i \in 1..4 : buckets[i].v.lower <= buckets[i].v.upper
        /\ buckets[4].v.upper = 100 * (LongestDuration + 1000)
        /\ \A x \in Probes :
              Cardinality({i \in 1..4 : buckets[i].v.lower < x /\ x <= buckets[i].v.upper}) = 1
        /\ \A j \in 1..Len(applications) : Cardinality({i \in 1..4 : j \in JobsIn(i)}) = 1
        /\ \A i \in 1..4 :
              /\ Len(grouped[i].v) = Cardinality(JobsIn(i))
              /\ \A j \in JobsIn(i) : applications[j].executors \in Range(grouped[i].v)
        /\ GroupedTotal = Len(applications)

\* four jobs of four durations, one in each quartile bucket
C10_Witness ==
    /\ analyzed = "quartile"
    /\ PositiveInput
    /\ Cardinality(Range(Durations(applications))) = 4
    /\ \A i \in 1..4 : Len(grouped[i].v) = 1

\* the k-th smallest of the durations, found by counting
Rank(a, k) ==
    CHOOSE x \in Range(a) :
        /\ Cardinality({i \in 1..Len(a) : a[i] < x}) < k
        /\ k <= Cardinality({i \in 1..Len(a) : a[i] <= x})

\* x is the q-th percentile of a by linear interpolation: it lies between the
\* two ranks nearest to position (n - 1) * q / 100, as far along as the
\* position is between them
Interpolated(a, q, x) ==
    LET n == Len(a) IN
    \E k \in 1..n :
        /\ 100 * (k - 1) <= (n - 1) * q
        /\ (n - 1) * q <= 100 * k
        /\ LET next == IF k < n THEN Rank(a, k + 1) ELSE Rank(a, k) IN
           x = 100 * Rank(a, k) + ((n - 1) * q - 100 * (k - 1)) * (next - Rank(a, k))

TenToForty == {10000, 20000, 30000, 40000}

\* C16: the duration thresholds of both analyzers are percentiles by linear
\* interpolation between the two nearest ranks of the sorted durations; for
\* the durations 10, 20, 30 and 40 s, in any order, both put the 50th
\* percentile at 25 s.
C16_LinearInterpolation ==
    (analyzed # "none" /\ applications # <<>>) =>
        LET durations == Durations(applications) IN
        /\ analyzed = "detailed" =>
              /\ Len(buckets) = 10
              /\ \A i \in 1..10 : Interpolated(durations, 10 * i, buckets[i].v.upper)
              /\ (Len(durations) = 4 /\ Range(durations) = TenToForty) =>
                    buckets[5].v.upper = Bound(25000)
        /\ analyzed = "quartile" =>
              /\ Len(buckets) = 4
              /\ Interpolated(durations, 25, buckets[1].v.upper)
              /\ Interpolated(durations, 50, buckets[2].v.upper)
              /\ Interpolated(durations, 75, buckets[3].v.upper)
              /\ (Len(durations) = 4 /\ Range(durations) = TenToForty) =>
                    /\ buckets[1].v.upper = Bound(17500)
                    /\ buckets[2].v.upper = Bound(25000)
                    /\ buckets[3].v.upper = Bound(32500)

\* the quartile analyzer was given 30, 10, 40 and 20 s
C16_Witness ==
    /\ analyzed = "quartile"
    /\ Durations(applications) = <<30000, 10000, 40000, 20000>>
    /\ buckets[2].v.upper = Bound(25000)

\* the first bucket, in the order of the dict, whose (lower, upper] holds the
\* duration of job j; 0 if there is none
FirstHome(j) ==
    LET h == {i \in 1..Len(buckets) : j \in JobsIn(i)} IN
    IF h = {} THEN 0 ELSE CHOOSE i \in h : \A k \in h : i <= k

\* the jobs whose first such bucket is bucket i, in the order of the input
PlacedIn(i) ==
    LET S == {j \in 1..Len(applications) : FirstHome(j) = i} IN
    [k \in 1..Cardinality(S) |-> CHOOSE j \in S : Cardinality({l \in S : l <= j}) = k]

\* the first bucket whose upper bound is the duration of job j; 0 if there is none
LowerOfTie(j) ==
    LET t == {i \in 1..Len(buckets) : buckets[i].v.upper = 100 * applications[j].duration_sec} IN
    IF t = {} THEN 0 ELSE CHOOSE i \in t : \A k \in t : i <= k

\* C17: in both analyzers a job is put in the first bucket, in bucket order,
\* whose (lower, upper] holds its duration, and nowhere else; a job whose
\* positive duration is a threshold is put in the first of the buckets that
\* end at that threshold, equal consecutive thresholds or not.
C17_FirstBucket ==
    (analyzed # "none" /\ applications # <<>>) =>
        /\ Len(grouped) = Len(buckets)
        /\ \A i \in 1..Len(buckets) :
              /\ grouped[i].k = buckets[i].k
              /\ Len(grouped[i].v) = Len(PlacedIn(i))
              /\ \A k \in 1..Len(PlacedIn(i)) :
                    grouped[i].v[k] =
                        IF analyzed = "detailed"
                        THEN applications[PlacedIn(i)[k]]
                        ELSE applications[PlacedIn(i)[k]].executors
        /\ \A j \in 1..Len(applications) :
              (applications[j].duration_sec > 0 /\ LowerOfTie(j) # 0) =>
                  /\ FirstHome(j) = LowerOfTie(j)
                  /\ \E k \in 1..Len(grouped[LowerOfTie(j)].v) : PlacedIn(LowerOfTie(j))[k] = j

\* three jobs of one duration: the first three quartile thresholds are that
\* duration, and the three are in the first bucket, in their order
C17_Witness ==
    /\ analyzed = "quartile"
    /\ Len(applications) = 3
    /\ \A j \in 1..3 : applications[j].duration_sec = 20000
    /\ buckets[1].v.upper = Bound(20000)
    /\ buckets[2].v.upper = Bound(20000)
    /\ buckets[3].v.upper = Bound(20000)
    /\ grouped[1].v = <<3, 0, 3>>
    /\ grouped[2].v = <<>>

====
